---- MODULE Spec2Model ----
(***************************************************************************)
(* Model of the Wordle guess evaluator and word-library loader of          *)
(* src/src/lib.rs.                                                         *)
(*                                                                         *)
(* A Rust String is modelled as what it is: a sequence of UTF-8 bytes.     *)
(* str::len() is the number of bytes, str::chars() decodes the bytes into  *)
(* Unicode scalar values.  Sequences are 1-based here, 0-based in Rust.    *)
(***************************************************************************)
EXTENDS Integers, Sequences, FiniteSets, TLC

\* Longest guess / answer, in characters.
MaxLen == 3
\* Longest word-list file, in characters.
MaxFileLen == 4

\* 'a', 'b' (one byte each in UTF-8) and U+00E9 (two bytes in UTF-8).
Alphabet == {97, 98, 233}
\* 'a', U+00E9 and the line feed.
FileAlphabet == {97, 233, 10}

VARIABLES guess, answer, pc, states, guesses_file, answers_file, lpc, library

vars == <<guess, answer, pc, states, guesses_file, answers_file, lpc, library>>
evalVars == <<guess, answer, pc, states>>
loadVars == <<guesses_file, answers_file, lpc, library>>

(***************************************************************************)
(* Strings                                                                 *)
(***************************************************************************)

\* char::encode_utf8
encode_utf8(c) ==
    IF c < 128 THEN <<c>>
    ELSE IF c < 2048 THEN <<192 + (c \div 64), 128 + (c % 64)>>
    ELSE IF c < 65536 THEN
        <<224 + (c \div 4096), 128 + ((c \div 64) % 64), 128 + (c % 64)>>
    ELSE <<240 + (c \div 262144), 128 + ((c \div 4096) % 64),
           128 + ((c \div 64) % 64), 128 + (c % 64)>>

\* The String holding the characters cs.
RECURSIVE from_chars(_)
from_chars(cs) ==
    IF cs = <<>> THEN <<>> ELSE encode_utf8(Head(cs)) \o from_chars(Tail(cs))

\* Number of bytes of the UTF-8 sequence that starts with byte b.
utf8_char_width(b) ==
    IF b < 128 THEN 1 ELSE IF b < 224 THEN 2 ELSE IF b < 240 THEN 3 ELSE 4

\* The scalar value encoded by the UTF-8 sequence bs.
decode_utf8(bs) ==
    IF Len(bs) = 1 THEN bs[1]
    ELSE IF Len(bs) = 2 THEN (bs[1] - 192) * 64 + (bs[2] - 128)
    ELSE IF Len(bs) = 3 THEN
        (bs[1] - 224) * 4096 + (bs[2] - 128) * 64 + (bs[3] - 128)
    ELSE (bs[1] - 240) * 262144 + (bs[2] - 128) * 4096
         + (bs[3] - 128) * 64 + (bs[4] - 128)

\* str::chars().collect::<Vec<char>>()
RECURSIVE chars(_)
chars(s) ==
    IF s = <<>> THEN <<>>
    ELSE LET w == utf8_char_width(s[1])
         IN  <<decode_utf8(SubSeq(s, 1, w))>> \o chars(SubSeq(s, w + 1, Len(s)))

\* str::len(): the length in bytes.
len(s) == Len(s)

CharSeqs(A, n) == UNION {[1..k -> A] : k \in 0..n}

\* The guesses and answers a caller may pass.
Words == {from_chars(cs) : cs \in CharSeqs(Alphabet, MaxLen)}

(***************************************************************************)
(* GuessEvaluator                                                          *)
(***************************************************************************)

\* answer.iter().enumerate().any(|(j, &ac)| j != i && ac == g && guess[j] != ac)
\* scanned from position j on; && and any() short-circuit, and guess[j]
\* panics when j is not an index of guess.
RECURSIVE any_from(_, _, _, _)
any_from(g, a, i, j) ==
    IF j > Len(a) THEN "false"
    ELSE IF j # i /\ a[j] = g[i] THEN
        IF j > Len(g) THEN "panic"
        ELSE IF g[j] # a[j] THEN "true"
        ELSE any_from(g, a, i, j + 1)
    ELSE any_from(g, a, i, j + 1)

\* evaluate_letter with the unmatched test negated (guess[j] == ac).
RECURSIVE any_from_eq(_, _, _, _)
any_from_eq(g, a, i, j) ==
    IF j > Len(a) THEN "false"
    ELSE IF j # i /\ a[j] = g[i] THEN
        IF j > Len(g) THEN "panic"
        ELSE IF g[j] = a[j] THEN "true"
        ELSE any_from_eq(g, a, i, j + 1)
    ELSE any_from_eq(g, a, i, j + 1)

evaluate_letter_eq(g, a, i) ==
    IF i > Len(a) THEN "Panic"
    ELSE IF g[i] = a[i] THEN "Correct"
    ELSE LET r == any_from_eq(g, a, i, 1)
         IN  IF r = "panic" THEN "Panic"
             ELSE IF r = "true" THEN "Present" ELSE "Absent"

\* evaluate_letter comparing with the first answer letter (answer[0]).
evaluate_letter_first(g, a, i) ==
    IF i > Len(a) THEN "Panic"
    ELSE IF g[i] = a[1] THEN "Correct"
    ELSE LET r == any_from(g, a, i, 1)
         IN  IF r = "panic" THEN "Panic"
             ELSE IF r = "true" THEN "Present" ELSE "Absent"

\* evaluate_letter(guess, answer, i) over the collected characters; "Panic"
\* is an index out of bounds.
evaluate_letter(g, a, i) ==
    IF i > Len(a) THEN "Panic"
    ELSE IF g[i] = a[i] THEN "Correct"
    ELSE LET r == any_from(g, a, i, 1)
         IN  IF r = "panic" THEN "Panic"
             ELSE IF r = "true" THEN "Present" ELSE "Absent"

LengthPanic == "Guess and answer must be the same length"
IndexPanic == "index out of bounds"

\* GuessResult::evaluate_guess: the outcome and the states of the result.
evaluate_guess(gs, as) ==
    IF len(gs) # len(as) THEN [pc |-> LengthPanic, states |-> <<>>]
    ELSE LET guess_chars == chars(gs)
             answer_chars == chars(as)
             st == [i \in 1..Len(guess_chars) |->
                        evaluate_letter(guess_chars, answer_chars, i)]
         IN  IF \E i \in 1..Len(guess_chars) : st[i] = "Panic"
             THEN [pc |-> IndexPanic, states |-> <<>>]
             ELSE [pc |-> "returned", states |-> st]

\* A caller invokes GuessResult::evaluate_guess(guess, answer).
EvaluateGuess ==
    /\ pc = "call"
    /\ LET r == evaluate_guess(guess, answer)
       IN  /\ pc' = r.pc
           /\ states' = r.states
    /\ UNCHANGED <<guess, answer, loadVars>>

(***************************************************************************)
(* WordLibrary loader                                                      *)
(***************************************************************************)

LF == 10
CR == 13

Unreadable == [readable |-> FALSE, contents |-> <<>>]
Files == {Unreadable} \cup
         {[readable |-> TRUE, contents |-> from_chars(cs)] :
              cs \in CharSeqs(FileAlphabet, MaxFileLen)}

NoLibrary == [guesses |-> <<>>, answers |-> <<>>, word_length |-> 0]

\* A line without its line ending: the "\n" is already cut, a "\r" before
\* it goes too.
strip_cr(line) ==
    IF line # <<>> /\ line[Len(line)] = CR
    THEN SubSeq(line, 1, Len(line) - 1) ELSE line

\* str::lines(): cur is the line read so far.  A last line without a line
\* ending is kept as it is; an empty last line is not a line.
RECURSIVE lines_from(_, _)
lines_from(s, cur) ==
    IF s = <<>> THEN (IF cur = <<>> THEN <<>> ELSE <<cur>>)
    ELSE IF Head(s) = LF THEN <<strip_cr(cur)>> \o lines_from(Tail(s), <<>>)
    ELSE lines_from(Tail(s), Append(cur, Head(s)))

lines(contents) == lines_from(contents, <<>>)

\* load_words_from_file
load_words_from_file(file) ==
    IF ~file.readable
    THEN [ok |-> FALSE, words |-> <<>>, word_length |-> 0]
    ELSE LET words == lines(file.contents)
             word_length == IF words = <<>> THEN 0 ELSE len(words[1])
         IN  IF ~(\A k \in 1..Len(words) : len(words[k]) = word_length)
             THEN [ok |-> FALSE, words |-> <<>>, word_length |-> 0]
             ELSE [ok |-> TRUE, words |-> words, word_length |-> word_length]

\* Library::load_from_file
load_from_file(gf, af) ==
    LET g == load_words_from_file(gf)
        a == load_words_from_file(af)
    IN  IF ~g.ok \/ ~a.ok THEN [pc |-> "panicked", library |-> NoLibrary]
        ELSE IF g.word_length # a.word_length
        THEN [pc |-> "panicked", library |-> NoLibrary]
        ELSE [pc |-> "returned",
              library |-> [guesses |-> g.words, answers |-> a.words,
                           word_length |-> g.word_length]]

\* A caller invokes Library::load_from_file(guesses_path, answers_path).
LoadFromFile ==
    /\ lpc = "call"
    /\ LET r == load_from_file(guesses_file, answers_file)
       IN  /\ lpc' = r.pc
           /\ library' = r.library
    /\ UNCHANGED <<guesses_file, answers_file, evalVars>>

(***************************************************************************)
(* Specifications                                                          *)
(***************************************************************************)

\* The evaluator, called on any two words.
Init ==
    /\ guess \in Words
    /\ answer \in Words
    /\ pc = "call"
    /\ states = <<>>
    /\ guesses_file = Unreadable
    /\ answers_file = Unreadable
    /\ lpc = "idle"
    /\ library = NoLibrary

Next == EvaluateGuess

Spec == Init /\ [][Next]_vars

\* The loader, called on any two files.
LoadInit ==
    /\ guess = <<>>
    /\ answer = <<>>
    /\ pc = "idle"
    /\ states = <<>>
    /\ guesses_file \in Files
    /\ answers_file \in Files
    /\ lpc = "call"
    /\ library = NoLibrary

LoadNext == LoadFromFile

LoadSpec == LoadInit /\ [][LoadNext]_vars

(***************************************************************************)
(* Properties of the evaluator                                             *)
(***************************************************************************)

gc == chars(guess)
ac == chars(answer)
Returned == pc = "returned"
Finished == pc # "call"
EqualCount == Len(gc) = Len(ac)
Count(s, c) == Cardinality({i \in 1..Len(s) : s[i] = c})

\* The per-position rule of the specification, for words of equal count.
Rule(g, a, i) ==
    IF g[i] = a[i] THEN "Correct"
    ELSE IF \E j \in 1..Len(a) : j # i /\ a[j] = g[i] /\ g[j] # a[j]
         THEN "Present"
         ELSE "Absent"

\* C1: when evaluate_guess returns for a guess and an answer of equal
\* character count n, the result has n states and the state at each position
\* i is Correct if guess[i] = answer[i], else Present if some other position
\* j holds guess[i] in the answer and is not matched by the guess, else Absent.
C1_PerPositionRule ==
    (Returned /\ EqualCount) =>
        /\ Len(states) = Len(gc)
        /\ \A i \in 1..Len(gc) : states[i] = Rule(gc, ac, i)

\* A result of full length showing all three states.
C1_Witness ==
    /\ Returned /\ EqualCount /\ Len(gc) = MaxLen
    /\ \A s \in {"Correct", "Present", "Absent"} :
           \E i \in 1..Len(states) : states[i] = s

\* C2: in every result, the state at a position is Correct exactly when the
\* guess and the answer hold the same character there, so a position marked
\* Absent or Present holds different characters.
C2_CorrectIffEqual ==
    Returned =>
        \A i \in 1..Len(states) :
            /\ i <= Len(gc) /\ i <= Len(ac)
            /\ (states[i] = "Correct") <=> (gc[i] = ac[i])
            /\ states[i] \in {"Absent", "Present"} => gc[i] # ac[i]

\* A result with a Correct position and a position that is not Correct.
C2_Witness ==
    /\ Returned
    /\ \E i \in 1..Len(states) : states[i] = "Correct"
    /\ \E i \in 1..Len(states) : states[i] # "Correct"

\* C3: for words of equal count, a Present position has its letter at some
\* answer position whose state is not Correct, and an Absent position has its
\* letter at no answer position whose state is not Correct.
C3_PresentAbsentMeaning ==
    (Returned /\ EqualCount) =>
        \A i \in 1..Len(states) :
            LET unmatched == \E j \in 1..Len(ac) :
                                 ac[j] = gc[i] /\ states[j] # "Correct"
            IN  /\ states[i] = "Present" => unmatched
                /\ states[i] = "Absent" => ~unmatched

\* An Absent position whose letter is in the answer, at a matched position,
\* next to a Present position.
C3_Witness ==
    /\ Returned /\ EqualCount
    /\ \E i \in 1..Len(states) :
           states[i] = "Absent" /\ \E j \in 1..Len(ac) : ac[j] = gc[i]
    /\ \E i \in 1..Len(states) : states[i] = "Present"

\* C4: when the character counts of guess and answer differ, evaluate_guess
\* fails fatally and returns no result.
C4_MismatchIsFatal ==
    (Finished /\ ~EqualCount) => pc # "returned"

\* C5: when the character counts of guess and answer are equal, evaluate_guess
\* returns a result and never fails.
C5_TotalOnEqualCount ==
    (Finished /\ EqualCount) => Returned

\* C6: evaluating a word against itself yields Correct at every position.
C6_SelfMatch ==
    (Finished /\ guess = answer) =>
        /\ Returned
        /\ Len(states) = Len(gc)
        /\ \A i \in 1..Len(states) : states[i] = "Correct"

\* A word of full length, with a two-byte character, evaluated against itself.
C6_Witness ==
    /\ Returned /\ guess = answer
    /\ Len(gc) = MaxLen /\ len(guess) > Len(gc)

\* C9: the duplicate-letter rule is not count-based.  When the answer holds a
\* letter exactly once, at a position the guess does not match, every guess
\* position holding that letter is Present; a guess holding it twice or more
\* therefore gets more than one Present for the single letter of the answer.
C9_NotCountBased ==
    (Returned /\ EqualCount) =>
        \A c \in Alphabet : \A k \in 1..Len(ac) :
            (Count(ac, c) = 1 /\ ac[k] = c /\ gc[k] # c) =>
                \A i \in 1..Len(gc) : gc[i] = c => states[i] = "Present"

\* The answer holds a letter once, the guess holds it at two or more
\* positions, and more than one of them is Present.
C9_Witness ==
    /\ Returned /\ EqualCount
    /\ \E c \in Alphabet :
           /\ Count(ac, c) = 1
           /\ Count(gc, c) >= 2
           /\ Cardinality({i \in 1..Len(gc) :
                              gc[i] = c /\ states[i] = "Present"}) > 1

\* The canonical count-reserving algorithm: exact matches are Correct; then,
\* left to right, a non-matching guess letter is Present while an unclaimed,
\* unmatched instance of it remains in the answer, else Absent.  claimed is
\* the set of answer positions already claimed.
RECURSIVE CanonicalFrom(_, _, _, _)
CanonicalFrom(g, a, i, claimed) ==
    IF i > Len(g) THEN <<>>
    ELSE IF g[i] = a[i] THEN <<"Correct">> \o CanonicalFrom(g, a, i + 1, claimed)
    ELSE LET free == {j \in 1..Len(a) :
                         a[j] = g[i] /\ g[j] # a[j] /\ j \notin claimed}
         IN  IF free = {} THEN <<"Absent">> \o CanonicalFrom(g, a, i + 1, claimed)
             ELSE LET j == CHOOSE x \in free : \A y \in free : x <= y
                  IN  <<"Present">> \o
                      CanonicalFrom(g, a, i + 1, claimed \cup {j})

Canonical(g, a) == CanonicalFrom(g, a, 1, {})

\* No letter occurs more often in the guess than in the answer.
NoExcess == \A c \in Alphabet : Count(gc, c) <= Count(ac, c)

\* C10: against the canonical count-reserving algorithm, for words of equal
\* count: both mark the same positions Correct, every canonical Present is a
\* Present of evaluate_guess (every Absent of evaluate_guess is canonically
\* Absent), and the results are identical when no letter occurs more often in
\* the guess than in the answer.
C10_CanonicalRelation ==
    (Returned /\ EqualCount) =>
        LET can == Canonical(gc, ac)
        IN  /\ Len(can) = Len(states)
            /\ \A i \in 1..Len(states) :
                   /\ (can[i] = "Correct") <=> (states[i] = "Correct")
                   /\ can[i] = "Present" => states[i] = "Present"
                   /\ states[i] = "Absent" => can[i] = "Absent"
            /\ NoExcess => can = states

\* A pair where the two algorithms differ: a Present of evaluate_guess that
\* is canonically Absent.
C10_Witness ==
    /\ Returned /\ EqualCount
    /\ \E i \in 1..Len(states) :
           states[i] = "Present" /\ Canonical(gc, ac)[i] = "Absent"

(***************************************************************************)
(* Properties of the loader                                                *)
(***************************************************************************)

CharLen(w) == Len(chars(w))
SourceWords(f) == lines(f.contents)
SourceWordLength(f) ==
    IF SourceWords(f) = <<>> THEN 0 ELSE CharLen(SourceWords(f)[1])
SourceUniform(f) ==
    \A k \in 1..Len(SourceWords(f)) :
        CharLen(SourceWords(f)[k]) = SourceWordLength(f)
LoadFinished == lpc # "call"
LoadReturned == lpc = "returned"

\* C7: load_from_file returns a Library exactly when both sources are
\* readable, every word of each source has the character count of that
\* source's first word (0 for an empty source) and the two counts are equal;
\* in every other case it fails and produces no Library.
C7_LoadExactlyWhenValid ==
    LoadFinished =>
        /\ LoadReturned <=>
               /\ guesses_file.readable /\ answers_file.readable
               /\ SourceUniform(guesses_file) /\ SourceUniform(answers_file)
               /\ SourceWordLength(guesses_file) = SourceWordLength(answers_file)
        /\ ~LoadReturned => library = NoLibrary

\* C8: in every Library returned, every word of guesses and of answers has
\* character count word_length, which is the character count of the first
\* word of each non-empty source (0 when both are empty).
C8_LibraryWordLength ==
    LoadReturned =>
        /\ \A k \in 1..Len(library.guesses) :
               CharLen(library.guesses[k]) = library.word_length
        /\ \A k \in 1..Len(library.answers) :
               CharLen(library.answers[k]) = library.word_length
        /\ library.guesses # <<>> =>
               library.word_length = CharLen(library.guesses[1])
        /\ library.answers # <<>> =>
               library.word_length = CharLen(library.answers[1])
        /\ (library.guesses = <<>> /\ library.answers = <<>>) =>
               library.word_length = 0

====
